---- MODULE Spec2Model ----
(***************************************************************************)
(* Model of the bitrate applet's core (src/src/app.rs, src/src/network.rs):*)
(* the interface selector, the rate tracker driven by the UpdateBandwidth  *)
(* tick, the unit toggle, and the display formatter.                       *)
(*                                                                         *)
(* u64 values are kept at their full 64-bit width.  A u64 is a sequence of *)
(* NumLimbs base-1024 limbs, least significant first; the top limb holds   *)
(* the bits 60..63 and is below TopBase.  Strings are sequences of         *)
(* one-character strings.                                                  *)
(***************************************************************************)
EXTENDS Integers, Sequences, FiniteSets, TLC

\* ------------------------------------------------------------------ u64
LimbBase == 1024
NumLimbs == 7
TopBase == 16

Limbs == 1..NumLimbs

BaseOf(i) == IF i = NumLimbs THEN TopBase ELSE LimbBase

U64Zero == <<0, 0, 0, 0, 0, 0, 0>>

U64Max == <<1023, 1023, 1023, 1023, 1023, 1023, 15>>

\* The u64 of a small natural number (below 2^30).
FromNat(n) == <<n % LimbBase, (n \div LimbBase) % LimbBase, n \div (LimbBase * LimbBase),
                0, 0, 0, 0>>

IsZero(a) == a = U64Zero

\* Index of the most significant non-zero limb at or below i (1 for zero).
RECURSIVE TopLimbFrom(_, _)
TopLimbFrom(a, i) == IF i = 1 \/ a[i] # 0 THEN i ELSE TopLimbFrom(a, i - 1)

TopLimb(a) == TopLimbFrom(a, NumLimbs)

\* a < b on u64, comparing the limbs from i down.
RECURSIVE LessFrom(_, _, _)
LessFrom(a, b, i) == IF i = 0 THEN FALSE
                     ELSE IF a[i] # b[i] THEN a[i] < b[i]
                     ELSE LessFrom(a, b, i - 1)

Less(a, b) == LessFrom(a, b, NumLimbs)

\* The limbs i.. of a - b modulo 2^64, given the borrow into limb i.
RECURSIVE SubFrom(_, _, _, _)
SubFrom(a, b, i, borrow) ==
    IF i > NumLimbs THEN <<>>
    ELSE <<(a[i] - b[i] - borrow) % BaseOf(i)>>
             \o SubFrom(a, b, i + 1, IF a[i] - b[i] - borrow < 0 THEN 1 ELSE 0)

\* a - b modulo 2^64 (the wrapped difference); a - b itself when b <= a.
WrappingSub(a, b) == SubFrom(a, b, 1, 0)

\* The limbs i.. of a * m + carry modulo 2^64, for a small m.
RECURSIVE MulFrom(_, _, _, _)
MulFrom(a, m, i, carry) ==
    IF i > NumLimbs THEN <<>>
    ELSE <<(a[i] * m + carry) % BaseOf(i)>>
             \o MulFrom(a, m, i + 1, (a[i] * m + carry) \div BaseOf(i))

\* a * m modulo 2^64 for a small multiplier m (the wrapped product).
WrappingMul(a, m) == MulFrom(a, m, 1, 0)

\* The carry out of bit 63 of a * m + carry.
RECURSIVE MulCarry(_, _, _, _)
MulCarry(a, m, i, carry) ==
    IF i > NumLimbs THEN carry
    ELSE MulCarry(a, m, i + 1, (a[i] * m + carry) \div BaseOf(i))

\* TRUE when a * m does not fit in 64 bits.
MulOverflows(a, m) == MulCarry(a, m, 1, 0) # 0

\* The limbs i..1 of floor(a / d), most significant last, given the remainder
\* of the limbs above i.
RECURSIVE DivFrom(_, _, _, _)
DivFrom(a, d, i, rem) ==
    IF i = 0 THEN <<>>
    ELSE DivFrom(a, d, i - 1, (rem * BaseOf(i) + a[i]) % d)
             \o <<(rem * BaseOf(i) + a[i]) \div d>>

\* floor(a / d) for a small divisor d >= 1 (u64 division).
DivSmall(a, d) == DivFrom(a, d, NumLimbs, 0)

\* floor(log2(n)) of a limb value n in 1..1023.
RECURSIVE LimbLog2(_)
LimbLog2(n) == IF n <= 1 THEN 0 ELSE 1 + LimbLog2(n \div 2)

\* u64::ilog2 of a non-zero u64.
Ilog2(a) == 10 * (TopLimb(a) - 1) + LimbLog2(a[TopLimb(a)])

\* ------------------------------------------------------------------ strings
DigitChars == <<"0", "1", "2", "3", "4", "5", "6", "7", "8", "9">>

\* The decimal numeral of a natural number.
RECURSIVE Decimal(_)
Decimal(n) == IF n < 10 THEN <<DigitChars[n + 1]>>
              ELSE Decimal(n \div 10) \o <<DigitChars[(n % 10) + 1]>>

\* str::trim_end_matches(c).
RECURSIVE trim_end_matches(_, _)
trim_end_matches(s, c) ==
    IF Len(s) > 0 /\ s[Len(s)] = c THEN trim_end_matches(SubSeq(s, 1, Len(s) - 1), c)
    ELSE s

\* chars().take(n).collect().
take(s, n) == SubSeq(s, 1, IF Len(s) < n THEN Len(s) ELSE n)

\* str::contains(pat) for sequences of characters.
contains(s, pat) ==
    \E i \in 1..(Len(s) + 1) :
        i + Len(pat) - 1 <= Len(s) /\ SubSeq(s, i, i + Len(pat) - 1) = pat

IsWhitespace(c) == c \in {" ", "\n", "\t", "\r"}

\* str::trim_end.
RECURSIVE trim_end(_)
trim_end(s) == IF Len(s) > 0 /\ IsWhitespace(s[Len(s)]) THEN trim_end(SubSeq(s, 1, Len(s) - 1))
               ELSE s

\* str::trim_start.
RECURSIVE trim_start(_)
trim_start(s) == IF Len(s) > 0 /\ IsWhitespace(s[1]) THEN trim_start(Tail(s))
                 ELSE s

\* str::trim.
trim(s) == trim_start(trim_end(s))

\* ------------------------------------------------------------------ f64
\* Number of significant bits of an f64.
F64Mantissa == 53

RECURSIVE Pow2(_)
Pow2(n) == IF n = 0 THEN 1 ELSE 2 * Pow2(n - 1)

\* The limbs i.. of a + carry, the top limb taking the last carry whole.
RECURSIVE CarryFrom(_, _, _)
CarryFrom(a, i, carry) ==
    IF i = NumLimbs THEN <<a[i] + carry>>
    ELSE <<(a[i] + carry) % LimbBase>> \o CarryFrom(a, i + 1, (a[i] + carry) \div LimbBase)

\* `x as f64` for a u64 x: x rounded to F64Mantissa significant bits, ties to
\* even.  The result is a limb sequence whose top limb may reach TopBase (2^64).
AsF64(a) ==
    IF IsZero(a) \/ Ilog2(a) < F64Mantissa THEN a
    ELSE LET q == Ilog2(a) - (F64Mantissa - 1)
             w == a[1] + LimbBase * a[2]
             low == w % Pow2(q)
             half == Pow2(q - 1)
             lsb == (w \div Pow2(q)) % 2
             up == low > half \/ (low = half /\ lsb = 1)
             w2 == (w - low) + (IF up THEN Pow2(q) ELSE 0)
         IN  <<w2 % LimbBase, (w2 \div LimbBase) % LimbBase>>
                 \o CarryFrom(a, 3, w2 \div (LimbBase * LimbBase))

\* f / 2^(10*(k-1)) for an f64 f given as limbs: the integer part and the limbs
\* of the fraction (least significant first).  Exact, as a division of an f64 by
\* a power of two is.
Rebase(f, k) ==
    [int  |-> IF k = NumLimbs THEN f[k] ELSE f[k] + LimbBase * f[k + 1],
     frac |-> SubSeq(f, 1, k - 1)]

\* The fraction frac (limbs, least significant first) times m, from limb i on
\* with the carry into it: the limbs of the fraction of the product, then its
\* integer part as the last element.
RECURSIVE FracTimes(_, _, _, _)
FracTimes(frac, m, i, carry) ==
    IF i > Len(frac) THEN <<carry>>
    ELSE <<(frac[i] * m + carry) % LimbBase>>
             \o FracTimes(frac, m, i + 1, (frac[i] * m + carry) \div LimbBase)

\* How a fraction (limbs, least significant first) compares with 1/2:
\* -1 below, 0 equal, 1 above.
HalfCompare(frac) ==
    LET n == Len(frac)
    IN  IF n = 0 \/ frac[n] < LimbBase \div 2 THEN -1
        ELSE IF frac[n] > LimbBase \div 2 THEN 1
        ELSE IF \E j \in 1..(n - 1) : frac[j] # 0 THEN 1
        ELSE 0

\* n zeros.
Zeros(n) == [i \in 1..n |-> "0"]

\* format!("{:.N}", val) for val >= 0: the exact decimal expansion of val rounded
\* to N decimals, ties to even.  pow10 is 10^N.
FormatFixed(val, N, pow10) ==
    LET n == Len(val.frac)
        product == FracTimes(val.frac, pow10, 1, 0)
        kept == val.int * pow10 + product[n + 1]
        half == HalfCompare(SubSeq(product, 1, n))
        rounded == IF half = 1 \/ (half = 0 /\ kept % 2 = 1) THEN kept + 1 ELSE kept
        fracDigits == Decimal(rounded % pow10)
    IN  IF N = 0 THEN Decimal(rounded)
        ELSE Decimal(rounded \div pow10) \o <<".">>
                 \o Zeros(N - Len(fracDigits)) \o fracDigits

\* ------------------------------------------------------------------ Option
None == <<>>
Some(x) == <<x>>
Unwrap(o) == o[1]

\* ------------------------------------------------------------------ network.rs
\* An entry of /sys/class/net: its file name (with whether it is valid UTF-8)
\* and the outcome of reading its operstate and carrier files (None: the read
\* fails).
Entry(name, utf8, operstate, carrier) ==
    [file_name |-> name, utf8 |-> utf8, operstate |-> operstate, carrier |-> carrier]

\* OsString::into_string(): None when the name is not valid UTF-8.
into_string(entry) == IF entry.utf8 THEN Some(entry.file_name) ELSE None

\* Result::unwrap_or_default() of a read_to_string.
unwrap_or_default(r) == IF r = None THEN <<>> ELSE Unwrap(r)

\* network::get_default_network_interface over the entries of /sys/class/net
\* from position i on.
RECURSIVE SelectFrom(_, _)
SelectFrom(entries, i) ==
    IF i > Len(entries) THEN None
    ELSE LET entry == entries[i]
             iface == into_string(entry)
         IN  IF iface = None THEN None
             ELSE IF Unwrap(iface) = "lo" THEN SelectFrom(entries, i + 1)
             ELSE IF ~contains(unwrap_or_default(entry.operstate), <<"u", "p">>)
                  THEN SelectFrom(entries, i + 1)
             ELSE IF trim(unwrap_or_default(entry.carrier)) = <<"1">> THEN iface
             ELSE SelectFrom(entries, i + 1)

\* network::get_default_network_interface; dir is None when read_dir fails.
get_default_network_interface(dir) ==
    IF dir = None THEN None ELSE SelectFrom(Unwrap(dir), 1)

DigitValue(c) == CHOOSE d \in 0..9 : DigitChars[d + 1] = c

\* a * 10 + d for a digit d (the parser's checked_mul and checked_add): None
\* when it does not fit in 64 bits.
PushDigit(a, d) ==
    IF MulCarry(a, 10, 1, d) # 0 THEN None ELSE Some(MulFrom(a, 10, 1, d))

\* u64::from_str_radix(s, 10) on the digits of s from position i on, acc being
\* the value of the digits before i.
RECURSIVE ParseDigits(_, _, _)
ParseDigits(s, i, acc) ==
    IF i > Len(s) THEN Some(acc)
    ELSE IF s[i] \notin {DigitChars[j] : j \in 1..10} THEN None
    ELSE LET pushed == PushDigit(acc, DigitValue(s[i]))
         IN  IF pushed = None THEN None ELSE ParseDigits(s, i + 1, Unwrap(pushed))

\* u64::from_str_radix(s, 10).ok(): an optional leading "+", then at least one
\* digit.
from_str_radix(s) ==
    LET digits == IF Len(s) > 0 /\ s[1] = "+" THEN Tail(s) ELSE s
    IN  IF Len(digits) = 0 THEN None ELSE ParseDigits(digits, 1, U64Zero)

\* network::get_received_bytes on the outcome of reading statistics/rx_bytes
\* (None: the read fails).
get_received_bytes(file) ==
    IF file = None THEN None ELSE from_str_radix(trim_end(Unwrap(file)))

\* network::get_sent_bytes on the outcome of reading statistics/tx_bytes.
get_sent_bytes(file) ==
    IF file = None THEN None ELSE from_str_radix(trim_end(Unwrap(file)))

\* ------------------------------------------------------------------ formatter
\* The local `formatted` of format_speed: val with no decimal from 1000 on,
\* one from 100 on, two below.
formatted(val) ==
    IF val.int >= 1000 THEN FormatFixed(val, 0, 1)
    ELSE IF val.int >= 100 THEN FormatFixed(val, 1, 10)
    ELSE FormatFixed(val, 2, 100)

\* AppModel::format_speed.
format_speed(val) ==
    LET result == trim_end_matches(trim_end_matches(formatted(val), "0"), ".")
    IN  take(result, 5)

\* The power of 2 below a speed: speed.ilog2(), 0 for speed 0.
SpeedPower(speed) == IF ~IsZero(speed) THEN Ilog2(speed) ELSE 0

\* speed as f64 / 2u64.pow(power - power % 10) as f64.
SpeedRebase(speed, power) == Rebase(AsF64(speed), ((power - (power % 10)) \div 10) + 1)

\* A value string that goes through format_speed whatever the power.
SpeedDisplayTrimmed(speed) == format_speed(SpeedRebase(speed, SpeedPower(speed)))

\* The value string of set_download_speed_display and set_upload_speed_display.
SpeedDisplay(speed) ==
    LET power == SpeedPower(speed)
        rebase == SpeedRebase(speed, power)
    IN  IF power >= 10 THEN format_speed(rebase) ELSE FormatFixed(rebase, 0, 1)

\* A prefix that pushes 'K' after 'M' instead of in its place.
UnitPrefixBoth(power) == (IF power >= 20 THEN <<"M">> ELSE <<>>)
                             \o (IF power >= 10 THEN <<"K">> ELSE <<>>)

\* The K/M prefix of the unit string.
UnitPrefix(power) == IF power >= 20 THEN <<"M">>
                     ELSE IF power >= 10 THEN <<"K">>
                     ELSE <<>>

\* The unit string of set_download_speed_display and set_upload_speed_display;
\* arrow is the direction's arrow.
SpeedUnit(speed, unit, arrow) ==
    UnitPrefix(SpeedPower(speed))
        \o (IF unit = "Bits" THEN <<"b", "/", "s">> ELSE <<"B", "/", "s">>)
        \o <<" ", " ", arrow>>

DownArrow == "↓"
UpArrow == "↑"

\* ------------------------------------------------------------------ inputs
\* Number of distinct counter readings statistics/rx_bytes can show.
NumRxSamples == 1

\* Number of distinct counter readings statistics/tx_bytes can show.
NumTxSamples == 2

\* Number of sample ticks a run handles.
MaxTicks == 2

\* Number of entries /sys/class/net can list.
MaxEntries == 2

\* Contents of a statistics file: 5004, 2^61, 100, 2^64 - 1, 1500.
CounterTexts ==
    << <<"5", "0", "0", "4", "\n">>,
       <<"2", "3", "0", "5", "8", "4", "3", "0", "0", "9", "2", "1", "3", "6", "9", "3",
         "9", "5", "2", "\n">>,
       <<"1", "0", "0", "\n">>,
       <<"1", "8", "4", "4", "6", "7", "4", "4", "0", "7", "3", "7", "0", "9", "5", "5",
         "1", "6", "1", "5", "\n">>,
       <<"1", "5", "0", "0", "\n">> >>

\* The outcomes of reading a statistics file: the read fails, the file is
\* empty, or it holds one of the first n counter texts.
StatisticsFiles(n) ==
    {None, Some(<<"\n">>)}
        \cup {Some(CounterTexts[i]) : i \in 1..(IF n < Len(CounterTexts)
                                                THEN n ELSE Len(CounterTexts))}

\* What get_received_bytes / get_sent_bytes can return.
ReceivedReads == {get_received_bytes(f) : f \in StatisticsFiles(NumRxSamples)}
SentReads == {get_sent_bytes(f) : f \in StatisticsFiles(NumTxSamples)}

UpText == <<"u", "p", "\n">>
DownText == <<"d", "o", "w", "n", "\n">>
OneText == <<"1", "\n">>
ZeroText == <<"0", "\n">>

\* The entries /sys/class/net can list: the loopback, two interfaces and an
\* interface whose name is not valid UTF-8, each up or down (operstate
\* unreadable included), with or without carrier (the carrier file of an
\* interface that is down cannot be read).
NetEntries ==
    {Entry(n, TRUE, o, c) : n \in {"lo", "eth0", "wlan0"},
                            o \in {None, Some(UpText), Some(DownText)},
                            c \in {None, Some(OneText), Some(ZeroText)}}
        \cup {Entry("veth", FALSE, o, c) : o \in {Some(UpText), Some(DownText)},
                                          c \in {Some(OneText)}}

RECURSIVE SeqsUpTo(_, _)
SeqsUpTo(S, n) == IF n = 0 THEN {<<>>}
                  ELSE LET shorter == SeqsUpTo(S, n - 1)
                       IN  shorter \cup {Append(q, e) : q \in shorter, e \in S}

\* The outcomes of read_dir("/sys/class/net"): it fails, or lists up to
\* MaxEntries entries.
NetDirs == {None} \cup {Some(q) : q \in SeqsUpTo(NetEntries, MaxEntries)}

\* What get_default_network_interface can return.
SelectResults == {get_default_network_interface(d) : d \in NetDirs}

\* ------------------------------------------------------------------ config
\* spin_button(.., step 1, min 1, max 10, Message::UpdateRateChanged).
MinUpdateRate == 1
MaxUpdateRate == 10

Units == {"Bits", "Bytes"}

\* The update rates a stored BitrateAppletConfig holds in the runs: the two
\* ends of the range 1..=10 of update_rate.
ConfigRates == {1, 10}

\* The values of a BitrateAppletConfig: the unit and the update rate in seconds.
ConfigDomain == [unit : Units, update_rate : ConfigRates]

\* A spin button whose range starts at 0.
SpinButtonFromZero == {0, MaxUpdateRate}

\* The rates the spin button of the popup sends in the runs: the two ends of
\* its range.
SpinButtonRates == {MinUpdateRate, MaxUpdateRate}

\* The entities of the unit segmented control.
bits_entity == "bits_entity"
bytes_entity == "bytes_entity"
Entities == {bits_entity, bytes_entity}

\* ------------------------------------------------------------------ state
VARIABLES
    config,                     \* AppModel.config
    unit_model,                 \* the active entity of AppModel.unit_model
    default_network_interface,  \* AppModel.default_network_interface
    received_bytes,             \* AppModel.received_bytes
    sent_bytes,                 \* AppModel.sent_bytes
    download_speed,             \* AppModel.download_speed
    download_speed_display,     \* AppModel.download_speed_display
    download_unit,              \* AppModel.download_unit
    upload_speed,               \* AppModel.upload_speed
    upload_speed_display,       \* AppModel.upload_speed_display
    upload_unit,                \* AppModel.upload_unit
    overflow_checks,            \* the build's overflow-checks setting
    panicked,                   \* TRUE once a handler has panicked
    track,                      \* which of the two records below a run keeps
    baseline_iface,             \* the interface each baseline was read from
    msg,                        \* the last message handled, with its inputs
    ticks,                      \* the number of UpdateBandwidth messages handled
    net_dir                     \* the directory listing a selection is run on

app == <<config, unit_model, default_network_interface, received_bytes, sent_bytes,
         download_speed, download_speed_display, download_unit,
         upload_speed, upload_speed_display, upload_unit>>

vars == <<config, unit_model, default_network_interface, received_bytes, sent_bytes,
          download_speed, download_speed_display, download_unit,
          upload_speed, upload_speed_display, upload_unit,
          overflow_checks, panicked, track, baseline_iface, msg, ticks, net_dir>>

\* ------------------------------------------------------------------ records
\* msg' = Record(m): m is the message handled, when the run keeps it.
Record(m) == IF "msg" \in track THEN m ELSE msg

\* baseline_iface' = Source(b): b names the interfaces the baselines were read
\* from, when the run keeps them.
Source(b) == IF "iface" \in track THEN b ELSE baseline_iface

\* ------------------------------------------------------------------ u64 operators
\* a - b, a * 8 and a / d as the build computes them: with overflow checks an
\* overflow panics, without them the result wraps; a division by 0 panics.
Sub(a, b) == [panic |-> overflow_checks /\ Less(a, b), value |-> WrappingSub(a, b)]

Mul8(a) == [panic |-> overflow_checks /\ MulOverflows(a, 8), value |-> WrappingMul(a, 8)]

Div(a, d) == [panic |-> d = 0, value |-> IF d = 0 THEN a ELSE DivSmall(a, d)]

\* The speed UpdateBandwidth computes for one direction from the counter read
\* now and the stored one: cur - prev, times 8 for bits, divided by the update
\* rate; a step that panics ends the computation.
TickSpeed(cur, prev, cfg) ==
    LET Rate(scaled) == IF scaled.panic THEN scaled
                        ELSE Div(scaled.value, cfg.update_rate)
        Scaled(delta) == IF delta.panic THEN delta
                         ELSE IF cfg.unit = "Bits" THEN Rate(Mul8(delta.value))
                         ELSE Rate(delta)
    IN  Scaled(Sub(cur, prev))

\* ------------------------------------------------------------------ display
\* AppModel::set_download_speed_display: the pair made from the download speed
\* and the configured unit.
set_download_speed_display(speed, unit) ==
    [display |-> SpeedDisplay(speed), unit |-> SpeedUnit(speed, unit, DownArrow)]

\* AppModel::set_upload_speed_display.
set_upload_speed_display(speed, unit) ==
    [display |-> SpeedDisplay(speed), unit |-> SpeedUnit(speed, unit, UpArrow)]

\* ------------------------------------------------------------------ init
\* AppModel::init: the config as stored (or the default), the unit control set
\* from it, the baselines read from the interface the first selection returns
\* (0 when none, or when the read fails), the interface of a second selection
\* stored, speeds 0 and the display strings made from them.  kept names the
\* records the run keeps.
InitApp(kept) ==
    \E cfg \in ConfigDomain, first \in SelectResults, second \in SelectResults,
       rx \in ReceivedReads, tx \in SentReads :
        /\ config = cfg
        /\ unit_model = (IF cfg.unit = "Bits" THEN bits_entity ELSE bytes_entity)
        /\ received_bytes = (IF first # None /\ rx # None THEN Unwrap(rx) ELSE U64Zero)
        /\ sent_bytes = (IF first # None /\ tx # None THEN Unwrap(tx) ELSE U64Zero)
        /\ default_network_interface = second
        /\ download_speed = U64Zero
        /\ upload_speed = U64Zero
        /\ download_speed_display = set_download_speed_display(U64Zero, cfg.unit).display
        /\ download_unit = set_download_speed_display(U64Zero, cfg.unit).unit
        /\ upload_speed_display = set_upload_speed_display(U64Zero, cfg.unit).display
        /\ upload_unit = set_upload_speed_display(U64Zero, cfg.unit).unit
        /\ overflow_checks \in BOOLEAN
        /\ panicked = FALSE
        /\ track = kept
        /\ baseline_iface = (IF "iface" \in kept
                             THEN [rx |-> IF rx # None THEN first ELSE None,
                                   tx |-> IF tx # None THEN first ELSE None]
                             ELSE [rx |-> None, tx |-> None])
        /\ msg = [type |-> "Init"]
        /\ ticks = 0
        /\ net_dir = None

Init == InitApp({"msg"})

\* ------------------------------------------------------------------ update
\* The pair set_download_speed_display (for the down arrow) or
\* set_upload_speed_display makes of a speed.
Shown(arrow, speed, unit) ==
    IF arrow = DownArrow THEN set_download_speed_display(speed, unit)
    ELSE set_upload_speed_display(speed, unit)

\* The fields of one direction after UpdateBandwidth has computed its speed,
\* arrow naming the direction.
Tracked(speed, cur, dir, arrow) ==
    IF speed.panic THEN [dir EXCEPT !.panic = TRUE]
    ELSE [panic |-> FALSE,
          bytes |-> cur,
          speed |-> speed.value,
          shown |-> Shown(arrow, speed.value, config.unit),
          iface |-> default_network_interface]

\* One direction of Message::UpdateBandwidth: read is the counter read, dir the
\* direction's fields.  A failed read leaves the fields alone; a panic ends the
\* process, and the fields are then of no further use.
TrackDirection(read, dir, arrow) ==
    IF read = None THEN dir
    ELSE Tracked(TickSpeed(Unwrap(read), dir.bytes, config), Unwrap(read), dir, arrow)

\* The fields of the download direction.
Download == [panic |-> FALSE, bytes |-> received_bytes, speed |-> download_speed,
             shown |-> [display |-> download_speed_display, unit |-> download_unit],
             iface |-> baseline_iface.rx]

\* The fields of the upload direction.
Upload == [panic |-> FALSE, bytes |-> sent_bytes, speed |-> upload_speed,
           shown |-> [display |-> upload_speed_display, unit |-> upload_unit],
           iface |-> baseline_iface.tx]

\* The assignments of Message::UpdateBandwidth, d and u being the fields of the
\* two directions after it.
StoreDirections(d, u) ==
    /\ received_bytes' = d.bytes
    /\ download_speed' = d.speed
    /\ download_speed_display' = d.shown.display
    /\ download_unit' = d.shown.unit
    /\ sent_bytes' = u.bytes
    /\ upload_speed' = u.speed
    /\ upload_speed_display' = u.shown.display
    /\ upload_unit' = u.shown.unit
    /\ baseline_iface' = Source([rx |-> d.iface, tx |-> u.iface])
    /\ panicked' = (d.panic \/ u.panic)

\* Message::UpdateBandwidth: nothing without a stored interface; otherwise the
\* download direction from what get_received_bytes returns, then the upload
\* direction from what get_sent_bytes returns.  The upload counter is not read
\* when the download half panics.  The message recorded names the counters
\* read and what the reads returned.
UpdateBandwidth ==
    /\ ~panicked
    /\ ticks < MaxTicks
    /\ ticks' = ticks + 1
    /\ IF default_network_interface = None
       THEN /\ msg' = Record([type |-> "UpdateBandwidth", read |-> {},
                                 rx |-> None, tx |-> None])
            /\ UNCHANGED <<received_bytes, sent_bytes, download_speed,
                           download_speed_display, download_unit, upload_speed,
                           upload_speed_display, upload_unit, baseline_iface, panicked>>
       ELSE \E rx \in ReceivedReads :
              \E d \in {TrackDirection(rx, Download, DownArrow)} :
                IF d.panic
                THEN /\ msg' = Record([type |-> "UpdateBandwidth", read |-> {"rx"},
                                          rx |-> rx, tx |-> None])
                     /\ StoreDirections(d, Upload)
                ELSE \E tx \in SentReads :
                       \E u \in {TrackDirection(tx, Upload, UpArrow)} :
                         /\ msg' = Record([type |-> "UpdateBandwidth",
                                              read |-> {"rx", "tx"}, rx |-> rx, tx |-> tx])
                         /\ StoreDirections(d, u)
    /\ UNCHANGED <<config, unit_model, default_network_interface, overflow_checks, track,
                   net_dir>>

\* A re-check of the interface that also zeroes both speeds.
UpdateNetworkInterfaceResetting ==
    /\ ~panicked
    /\ \E selected \in SelectResults : default_network_interface' = selected
    /\ download_speed' = U64Zero
    /\ upload_speed' = U64Zero
    /\ msg' = Record([type |-> "UpdateNetworkInterface"])
    /\ UNCHANGED <<config, unit_model, received_bytes, sent_bytes,
                   download_speed_display, download_unit,
                   upload_speed_display, upload_unit, overflow_checks, panicked,
                   track, baseline_iface, ticks, net_dir>>

\* Message::UpdateNetworkInterface.
UpdateNetworkInterface ==
    /\ ~panicked
    /\ \E selected \in SelectResults : default_network_interface' = selected
    /\ msg' = Record([type |-> "UpdateNetworkInterface"])
    /\ UNCHANGED <<config, unit_model, received_bytes, sent_bytes, download_speed,
                   download_speed_display, download_unit, upload_speed,
                   upload_speed_display, upload_unit, overflow_checks, panicked,
                   track, baseline_iface, ticks, net_dir>>

\* The rescaling of Message::UnitChanged for a newly activated entity: both
\* speeds times 8 or divided by 8, the download speed first.
Rescale(entity) ==
    LET One(speed) == IF entity = bits_entity THEN Mul8(speed) ELSE Div(speed, 8)
        Both(d, u) == [panic |-> d.panic \/ u.panic, download |-> d.value, upload |-> u.value]
    IN  Both(One(download_speed), One(upload_speed))

\* What Message::UnitChanged stores for a newly activated entity, r being the
\* rescaled speeds and unit the entity's unit.
StoreUnit(r, unit) ==
    /\ panicked' = r.panic
    /\ IF r.panic
       THEN UNCHANGED <<config, download_speed, download_speed_display,
                        download_unit, upload_speed, upload_speed_display, upload_unit>>
       ELSE /\ download_speed' = r.download
            /\ upload_speed' = r.upload
            /\ config' = [config EXCEPT !.unit = unit]
            /\ \E shown \in {set_download_speed_display(r.download, unit)} :
                 /\ download_speed_display' = shown.display
                 /\ download_unit' = shown.unit
            /\ \E shown \in {set_upload_speed_display(r.upload, unit)} :
                 /\ upload_speed_display' = shown.display
                 /\ upload_unit' = shown.unit

\* Message::UnitChanged(entity).
UnitChanged(entity) ==
    /\ ~panicked
    /\ msg' = Record([type |-> "UnitChanged", entity |-> entity])
    /\ IF unit_model = entity
       THEN UNCHANGED <<config, unit_model, download_speed, download_speed_display,
                        download_unit, upload_speed, upload_speed_display, upload_unit,
                        panicked>>
       ELSE /\ unit_model' = entity
            /\ \E r \in {Rescale(entity)} :
                 StoreUnit(r, IF entity = bits_entity THEN "Bits" ELSE "Bytes")
    /\ UNCHANGED <<default_network_interface, received_bytes, sent_bytes,
                   overflow_checks, track, baseline_iface, ticks, net_dir>>

\* Message::UpdateRateChanged(rate).
UpdateRateChanged(rate) ==
    /\ ~panicked
    /\ config' = [config EXCEPT !.update_rate = rate]
    /\ msg' = Record([type |-> "UpdateRateChanged", rate |-> rate])
    /\ UNCHANGED <<unit_model, default_network_interface, received_bytes, sent_bytes,
                   download_speed, download_speed_display, download_unit, upload_speed,
                   upload_speed_display, upload_unit, overflow_checks, panicked,
                   track, baseline_iface, ticks, net_dir>>

\* Message::UpdateConfig(config), sent by the watcher of the stored config.
UpdateConfig(cfg) ==
    /\ ~panicked
    /\ config' = cfg
    /\ msg' = Record([type |-> "UpdateConfig"])
    /\ UNCHANGED <<unit_model, default_network_interface, received_bytes, sent_bytes,
                   download_speed, download_speed_display, download_unit, upload_speed,
                   upload_speed_display, upload_unit, overflow_checks, panicked,
                   track, baseline_iface, ticks, net_dir>>

Next ==
    \/ UpdateBandwidth
    \/ UpdateNetworkInterface
    \/ \E entity \in Entities : UnitChanged(entity)
    \/ \E rate \in SpinButtonRates : UpdateRateChanged(rate)
    \/ \E cfg \in ConfigDomain : UpdateConfig(cfg)

Spec == Init /\ [][Next]_vars

\* The same program in runs that keep the source of the baselines instead of
\* the messages.
InitIface == InitApp({"iface"})

SpecIface == InitIface /\ [][Next]_vars

\* ------------------------------------------------------------------ selection
\* get_default_network_interface run on the listing net_dir and its result
\* stored, as Message::UpdateNetworkInterface stores it.
SelectInterface ==
    /\ msg.type = "Init"
    /\ default_network_interface' = get_default_network_interface(net_dir)
    /\ msg' = Record([type |-> "UpdateNetworkInterface"])
    /\ UNCHANGED <<config, unit_model, received_bytes, sent_bytes, download_speed,
                   download_speed_display, download_unit, upload_speed,
                   upload_speed_display, upload_unit, overflow_checks, panicked,
                   track, baseline_iface, ticks, net_dir>>

\* An application just started, and a listing of /sys/class/net.
InitSelect ==
    /\ net_dir \in NetDirs
    /\ config \in ConfigDomain
    /\ unit_model = (IF config.unit = "Bits" THEN bits_entity ELSE bytes_entity)
    /\ default_network_interface = None
    /\ received_bytes = U64Zero
    /\ sent_bytes = U64Zero
    /\ download_speed = U64Zero
    /\ upload_speed = U64Zero
    /\ download_speed_display = set_download_speed_display(U64Zero, config.unit).display
    /\ download_unit = set_download_speed_display(U64Zero, config.unit).unit
    /\ upload_speed_display = set_upload_speed_display(U64Zero, config.unit).display
    /\ upload_unit = set_upload_speed_display(U64Zero, config.unit).unit
    /\ overflow_checks = FALSE
    /\ panicked = FALSE
    /\ track = {"msg"}
    /\ baseline_iface = [rx |-> None, tx |-> None]
    /\ msg = [type |-> "Init"]
    /\ ticks = 0

NextSelect == SelectInterface

SpecSelect == InitSelect /\ [][NextSelect]_vars

\* ------------------------------------------------------------------ formatting
\* The top limbs of the raw rates formatted: the ends of the ranges of
\* format_speed and values whose integer part ends in 0.
TopValues == {1, 9, 10, 15, 99, 100, 512, 999, 1000, 1010, 1020, 1023}

\* The limb below the top one: fractions 0, 5/1024, 1/8, 1/4, 1/2 and 1023/1024.
NextValues == {0, 5, 128, 256, 512, 1023}

\* The limbs further down, all alike.
RestValues == {0, 1023}

\* The raw rate with top limb t at position k, n below it and r further down.
RawAt(k, t, n, r) ==
    LET limb(i) == IF i = k THEN t
                   ELSE IF i = k - 1 THEN n
                   ELSE IF i < k THEN r
                   ELSE 0
    IN  <<limb(1), limb(2), limb(3), limb(4), limb(5), limb(6), limb(7)>>

\* The raw rates formatted: every position of the top limb, from 0 up to
\* 2^64 - 1, and 1500000.
RawRates ==
    {U64Zero, FromNat(1500000)}
        \cup {RawAt(k, t, n, r) : k \in Limbs,
                                  t \in {v \in TopValues : v < TopBase} \cup {TopBase - 1},
                                  n \in NextValues, r \in RestValues}
        \cup {RawAt(k, t, n, r) : k \in 1..(NumLimbs - 1), t \in TopValues,
                                  n \in NextValues, r \in RestValues}

\* A constructed AppModel whose speeds are a raw rate, before its display
\* strings are set.
InitFormat ==
    /\ config \in ConfigDomain
    /\ download_speed \in RawRates
    /\ upload_speed = download_speed
    /\ download_speed_display = <<>>
    /\ download_unit = <<>>
    /\ upload_speed_display = <<>>
    /\ upload_unit = <<>>
    /\ unit_model = (IF config.unit = "Bits" THEN bits_entity ELSE bytes_entity)
    /\ default_network_interface = None
    /\ received_bytes = U64Zero
    /\ sent_bytes = U64Zero
    /\ overflow_checks = FALSE
    /\ panicked = FALSE
    /\ track = {"msg"}
    /\ baseline_iface = [rx |-> None, tx |-> None]
    /\ msg = [type |-> "Init"]
    /\ ticks = 0
    /\ net_dir = None

\* AppModel::set_download_speed_display on the stored speed.
SetDownloadSpeedDisplay ==
    /\ download_unit = <<>>
    /\ \E shown \in {set_download_speed_display(download_speed, config.unit)} :
         /\ download_speed_display' = shown.display
         /\ download_unit' = shown.unit
    /\ msg' = Record([type |-> "set_download_speed_display"])
    /\ UNCHANGED <<config, unit_model, default_network_interface, received_bytes,
                   sent_bytes, download_speed, upload_speed, upload_speed_display,
                   upload_unit, overflow_checks, panicked, track, baseline_iface,
                   ticks, net_dir>>

\* AppModel::set_upload_speed_display on the stored speed.
SetUploadSpeedDisplay ==
    /\ upload_unit = <<>>
    /\ \E shown \in {set_upload_speed_display(upload_speed, config.unit)} :
         /\ upload_speed_display' = shown.display
         /\ upload_unit' = shown.unit
    /\ msg' = Record([type |-> "set_upload_speed_display"])
    /\ UNCHANGED <<config, unit_model, default_network_interface, received_bytes,
                   sent_bytes, download_speed, upload_speed, download_speed_display,
                   download_unit, overflow_checks, panicked, track, baseline_iface,
                   ticks, net_dir>>

NextFormat == SetDownloadSpeedDisplay \/ SetUploadSpeedDisplay

SpecFormat == InitFormat /\ [][NextFormat]_vars

\* ------------------------------------------------------------------ claims
\* The step handles a sample tick (Message::UpdateBandwidth).
IsTick == ticks' = ticks + 1 /\ msg'.type = "UpdateBandwidth"

\* The tick read the counter of direction dir and the read returned a value.
ReadOk(dir) == dir \in msg'.read /\ msg'[dir] # None

\* The tick read the counter of direction dir and the read failed.
ReadFailed(dir) == dir \in msg'.read /\ msg'[dir] = None

\* C1: on a sample tick whose counter read succeeds with current < previous
\* for a direction, the tracker does not abort, the rate it stores for that
\* direction is 0 or the previous rate, and current is the new baseline.
C1_NoUnderflow ==
    [][IsTick =>
         /\ (ReadOk("rx") /\ Less(Unwrap(msg'.rx), received_bytes))
              => /\ ~panicked'
                 /\ download_speed' \in {U64Zero, download_speed}
                 /\ received_bytes' = Unwrap(msg'.rx)
         /\ (ReadOk("tx") /\ Less(Unwrap(msg'.tx), sent_bytes))
              => /\ ~panicked'
                 /\ upload_speed' \in {U64Zero, upload_speed}
                 /\ sent_bytes' = Unwrap(msg'.tx)]_vars

\* The rate the specification gives for a delta: floor(delta / update_rate)
\* bytes per second, times 8 for bits; None when that does not fit in a u64.
ClaimedRate(delta, cfg) ==
    IF cfg.unit = "Bytes" THEN Some(DivSmall(delta, cfg.update_rate))
    ELSE IF MulOverflows(DivSmall(delta, cfg.update_rate), 8) THEN None
    ELSE Some(WrappingMul(DivSmall(delta, cfg.update_rate), 8))

\* The counter read of a direction gives a delta whose claimed rate fits in a
\* u64: the read failed or was not made, or current >= previous and the rate
\* fits.
Plain(dir, prev) ==
    ReadOk(dir) => /\ ~Less(Unwrap(msg'[dir]), prev)
                   /\ ClaimedRate(WrappingSub(Unwrap(msg'[dir]), prev), config) # None

\* The speed stored for a direction read with success is the claimed rate.
StoresClaimed(dir, prev, stored) ==
    ReadOk(dir) => Some(stored) = ClaimedRate(WrappingSub(Unwrap(msg'[dir]), prev), config)

\* C2: on a sample tick whose successful reads have current >= previous (and
\* rates that fit in a u64), the tick completes and the rate stored for each
\* direction read is floor((current - previous) / update_rate), times 8 when
\* the unit is Bits: the division comes before the multiplication, and
\* nothing wraps.
C2_DivideThenMultiply ==
    [][(IsTick /\ Plain("rx", received_bytes) /\ Plain("tx", sent_bytes))
         => /\ ~panicked'
            /\ StoresClaimed("rx", received_bytes, download_speed')
            /\ StoresClaimed("tx", sent_bytes, upload_speed')]_vars

\* The download fields, and the upload fields.
DownloadFields == <<download_speed, received_bytes, download_speed_display, download_unit>>
UploadFields == <<upload_speed, sent_bytes, upload_speed_display, upload_unit>>

\* C3: on a sample tick without a selected interface both directions' rate,
\* baseline and display strings are unchanged; with an interface, a direction
\* whose read fails keeps its rate, baseline and display strings while the
\* other direction, when its own read succeeds, is still updated (its baseline
\* is the counter just read); and no failed read leaves the application
\* panicked.
C3_FailedReadIsolated ==
    [][IsTick =>
         /\ default_network_interface = None
              => UNCHANGED <<DownloadFields, UploadFields, panicked>>
         /\ ReadFailed("rx")
              => /\ UNCHANGED DownloadFields
                 /\ ReadOk("tx") => (~panicked' /\ sent_bytes' = Unwrap(msg'.tx))
                 /\ ReadFailed("tx") => ~panicked'
         /\ ReadFailed("tx")
              => /\ UNCHANGED UploadFields
                 /\ ReadOk("rx") => (~panicked' /\ received_bytes' = Unwrap(msg'.rx))]_vars

\* speed times 8 without wraparound: after is exactly 8 * before.
IsTimes8(before, after) == ~MulOverflows(before, 8) /\ after = WrappingMul(before, 8)

\* C4: UnitChanged with the bits entity while the bytes entity is active
\* completes, makes both speeds exactly 8 times what they were and leaves the
\* baselines alone; and the toggle back to the bytes entity, taken from the
\* state it leaves, gives both original speeds again.
C4_ToggleTimes8 ==
    [][(msg'.type = "UnitChanged" /\ msg'.entity = bits_entity /\ unit_model = bytes_entity)
         => /\ ~panicked'
            /\ IsTimes8(download_speed, download_speed')
            /\ IsTimes8(upload_speed, upload_speed')
            /\ UNCHANGED <<received_bytes, sent_bytes>>
            /\ Rescale(bytes_entity)' = [panic |-> FALSE,
                                         download |-> download_speed,
                                         upload |-> upload_speed]]_vars

\* The step rescales both speeds the way a change of the unit from `from` to
\* `to` asks for: times 8 from Bytes to Bits, divided by 8 from Bits to Bytes.
RescaledOnce(from, to) ==
    IF from = "Bytes" /\ to = "Bits"
    THEN IsTimes8(download_speed, download_speed') /\ IsTimes8(upload_speed, upload_speed')
    ELSE /\ download_speed' = DivSmall(download_speed, 8)
         /\ upload_speed' = DivSmall(upload_speed, 8)

\* C5: a step that changes config.unit rescales both speeds once for that
\* change, and a step other than a sample tick that keeps config.unit leaves
\* both speeds as they were (UnitChanged for the configured unit included).
C5_RescaleOncePerChange ==
    [][/\ config'.unit # config.unit => RescaledOnce(config.unit, config'.unit)
       /\ (config'.unit = config.unit /\ ~IsTick)
            => UNCHANGED <<download_speed, upload_speed>>]_vars

\* C6: between events both display pairs are what the formatter makes of the
\* stored speed and config.unit.
C6_DisplayCurrent ==
    ~panicked =>
        /\ [display |-> download_speed_display, unit |-> download_unit]
               = set_download_speed_display(download_speed, config.unit)
        /\ [display |-> upload_speed_display, unit |-> upload_unit]
               = set_upload_speed_display(upload_speed, config.unit)

\* The three conditions of the selection on an entry: its name is not "lo",
\* its operstate text contains "up", its carrier text trimmed is "1".
Qualifies(entry) ==
    /\ entry.file_name # "lo"
    /\ contains(unwrap_or_default(entry.operstate), <<"u", "p">>)
    /\ trim(unwrap_or_default(entry.carrier)) = <<"1">>

\* The positions of the listing whose entries qualify.
Qualifying(entries) == {i \in 1..Len(entries) : Qualifies(entries[i])}

\* The least position of a non-empty set of positions.
First(positions) == CHOOSE i \in positions : \A j \in positions : i <= j

\* C7: the interface stored after a selection over a listing is None when no
\* entry of the listing qualifies and otherwise the name of the first entry
\* that qualifies (whenever that name is a string): the entries before it are
\* skipped, whatever they are.
C7_FirstQualifying ==
    (msg.type = "UpdateNetworkInterface" /\ net_dir # None) =>
        LET entries == Unwrap(net_dir)
            found == Qualifying(entries)
        IN  IF found = {} THEN default_network_interface = None
            ELSE entries[First(found)].utf8
                    => default_network_interface = Some(entries[First(found)].file_name)

\* Both baselines were read from the interface stored.
BaselinesOfInterface ==
    /\ baseline_iface.rx = default_network_interface
    /\ baseline_iface.tx = default_network_interface

\* C8: a step that stores a different interface leaves baselines read from
\* that interface; and a sample tick that takes a new baseline for a direction
\* from the stored interface had a baseline of the same interface before, its
\* rate being the difference of two readings of one interface.
C8_BaselinesFollowInterface ==
    [][/\ (default_network_interface' # default_network_interface
             /\ default_network_interface' # None) => BaselinesOfInterface'
       /\ (ticks' = ticks + 1 /\ default_network_interface # None)
            => /\ baseline_iface'.rx = default_network_interface
                    => baseline_iface.rx = default_network_interface
               /\ baseline_iface'.tx = default_network_interface
                    => baseline_iface.tx = default_network_interface]_vars

\* C9: config.update_rate is within 1..=10 in every reachable state, whatever
\* UpdateRateChanged and UpdateConfig events came before.
C9_UpdateRateInRange == config.update_rate \in 1..10

\* The spin button delivered its maximum and the rate stored is that maximum.
C9_Witness ==
    /\ msg.type = "UpdateRateChanged"
    /\ msg.rate = MaxUpdateRate
    /\ config.update_rate = MaxUpdateRate
    /\ ticks > 0

\* The positions of s at which "b/s" or "B/s" starts.
UnitAt(s) ==
    {i \in 1..(Len(s) - 2) :
        SubSeq(s, i, i + 2) \in {<<"b", "/", "s">>, <<"B", "/", "s">>}}

\* A value string of 1 to 5 characters, and a unit string holding "b/s" or
\* "B/s" once, with nothing, "K" or "M" before it.
WellFormed(display, unit) ==
    /\ Len(display) \in 1..5
    /\ Cardinality(UnitAt(unit)) = 1
    /\ \A i \in UnitAt(unit) : SubSeq(unit, 1, i - 1) \in {<<>>, <<"K">>, <<"M">>}

\* C10: whatever the raw rate and the unit, the pair set_download_speed_display
\* stores and the pair set_upload_speed_display stores are a value string of 1
\* to 5 characters and a unit string holding exactly one of "b/s" and "B/s",
\* with nothing, "K" or "M" before it.
C10_DisplayWellFormed ==
    /\ download_unit # <<>> => WellFormed(download_speed_display, download_unit)
    /\ upload_unit # <<>> => WellFormed(upload_speed_display, upload_unit)

\* Both pairs are set from a rate of at least 2^60 bytes per second, the value
\* string of the download being 5 characters long.
C10_Witness ==
    /\ download_unit # <<>>
    /\ upload_unit # <<>>
    /\ ~Less(download_speed, RawAt(NumLimbs, 1, 0, 0))
    /\ config.unit = "Bytes"
    /\ Len(download_speed_display) = 5

\* The prefix claimed for a raw rate: "M" from 2^20 on (power >= 20), "K" from
\* 2^10 on, none below.
ClaimedPrefix(raw) ==
    IF ~Less(raw, FromNat(1048576)) THEN <<"M">>
    ELSE IF ~Less(raw, FromNat(1024)) THEN <<"K">>
    ELSE <<>>

\* The pair shown for raw has the claimed prefix before its "b/s" or "B/s",
\* and for raw < 1024 the value string is the decimal numeral of raw.
PrefixAndPlain(raw, display, unit) ==
    /\ UnitAt(unit) # {}
    /\ \A i \in UnitAt(unit) : SubSeq(unit, 1, i - 1) = ClaimedPrefix(raw)
    /\ Less(raw, FromNat(1024)) => display = Decimal(raw[1])

\* C11: for every raw rate the unit string starts with "M" when
\* floor(log2(raw)) >= 20, with "K" when it is within 10..19 and with no prefix
\* below; and for every raw < 1024 the value string is the plain decimal
\* numeral of raw.  The download and the upload pair obey the same rule.
C11_PrefixByPower ==
    /\ download_unit # <<>>
         => PrefixAndPlain(download_speed, download_speed_display, download_unit)
    /\ upload_unit # <<>>
         => PrefixAndPlain(upload_speed, upload_speed_display, upload_unit)

\* Both pairs are set from the raw rate 1023, shown as "1023" with no prefix.
C11_Witness ==
    /\ download_speed = FromNat(1023)
    /\ download_speed_display = <<"1", "0", "2", "3">>
    /\ download_unit = <<"b", "/", "s", " ", " ", DownArrow>>
    /\ upload_speed_display = <<"1", "0", "2", "3">>
    /\ upload_unit = <<"b", "/", "s", " ", " ", UpArrow>>

\* The scaled value of a raw rate: raw / 2^prefix_power as an f64.
Scaled(raw) == SpeedRebase(raw, SpeedPower(raw))

\* A numeral stripped of trailing zero digits and of a then-trailing decimal
\* point, then cut to its first 5 characters.
StrippedAndCut(numeral) ==
    take(trim_end_matches(trim_end_matches(numeral, "0"), "."), 5)

\* The scaled value with one decimal place from 100 on and two below.
OneOrTwoPlaces(val) ==
    IF val.int >= 100 THEN FormatFixed(val, 1, 10) ELSE FormatFixed(val, 2, 100)

\* C12: with a K/M prefix (raw >= 1024) the value string is the scaled value
\* with one decimal place when scaled >= 100 and two when scaled < 100,
\* stripped and cut, for every scaled value, those from 1000 on included; raw
\* 1500000 gives "1.43".
C12_OneOrTwoPlaces ==
    /\ (download_unit # <<>> /\ download_speed = FromNat(1500000))
         => download_speed_display = <<"1", ".", "4", "3">>
    /\ (download_unit # <<>> /\ ~Less(download_speed, FromNat(1024)))
         => download_speed_display = StrippedAndCut(OneOrTwoPlaces(Scaled(download_speed)))
    /\ (upload_unit # <<>> /\ ~Less(upload_speed, FromNat(1024)))
         => upload_speed_display = StrippedAndCut(OneOrTwoPlaces(Scaled(upload_speed)))


\* C13: a sample tick changes neither the stored interface nor the
\* configuration, and an interface re-check changes the stored interface
\* only: both speeds, the four display strings and every other field of the
\* application stay as they were.
C13_SelectionOnlyOnRecheck ==
    [][/\ IsTick => UNCHANGED <<default_network_interface, config, unit_model>>
       /\ msg'.type = "UpdateNetworkInterface"
            => UNCHANGED <<download_speed, upload_speed, download_speed_display,
                           download_unit, upload_speed_display, upload_unit,
                           received_bytes, sent_bytes, config, unit_model,
                           panicked>>]_vars

\* An interface re-check has stored wlan0 in an application that shows an
\* upload speed above 0 computed by an earlier sample tick.
C13_Witness ==
    /\ msg.type = "UpdateNetworkInterface"
    /\ default_network_interface = Some("wlan0")
    /\ ticks > 0
    /\ ~IsZero(upload_speed)
    /\ upload_speed_display # <<"0">>


\* The exponent of the power of two the displayed prefix denotes: 20 for "M",
\* 10 for "K", 0 for none.
PrefixExponent(unit) ==
    IF Len(unit) > 0 /\ unit[1] = "M" THEN 20
    ELSE IF Len(unit) > 0 /\ unit[1] = "K" THEN 10
    ELSE 0

\* The exponent of the power of two a raw rate is divided by.
DivisorExponent(raw) == SpeedPower(raw) - (SpeedPower(raw) % 10)

\* raw / 1024, rounded down: a rate 1024 times smaller.
Shrunk(raw) == Tail(raw) \o <<0>>

\* C14: for every raw rate the divisor of the scaling is the power of two the
\* displayed prefix denotes, and a raw rate from 1024 on is not shown with the
\* value string and the unit string of the rate 1024 times smaller.
C14_FaithfulMagnitude ==
    /\ download_unit # <<>> =>
        /\ DivisorExponent(download_speed) = PrefixExponent(download_unit)
        /\ ~Less(download_speed, FromNat(1024))
             => [display |-> download_speed_display, unit |-> download_unit]
                    # set_download_speed_display(Shrunk(download_speed), config.unit)
    /\ upload_unit # <<>> =>
        /\ DivisorExponent(upload_speed) = PrefixExponent(upload_unit)
        /\ ~Less(upload_speed, FromNat(1024))
             => [display |-> upload_speed_display, unit |-> upload_unit]
                    # set_upload_speed_display(Shrunk(upload_speed), config.unit)


\* The numeral without the trailing zeros of its fractional part, and without
\* a then-trailing decimal point: numerals of one number give one string.
FractionStripped(numeral) ==
    IF \E i \in 1..Len(numeral) : numeral[i] = "."
    THEN trim_end_matches(trim_end_matches(numeral, "0"), ".")
    ELSE numeral

\* The value string shown for a raw rate with a K/M prefix denotes the number
\* of the rounded numeral format_speed made it from.
SameNumber(raw, display) ==
    ~Less(raw, FromNat(1024))
        => FractionStripped(display) = FractionStripped(formatted(Scaled(raw)))

\* C15: the clean-up of format_speed removes zeros of the fractional part
\* only: for every scaled value the string shown denotes the same number as
\* the rounded numeral, the digits of the integer part being kept.
C15_IntegerDigitsKept ==
    /\ download_unit # <<>> => SameNumber(download_speed, download_speed_display)
    /\ upload_unit # <<>> => SameNumber(upload_speed, upload_speed_display)

====
